---- MODULE Spec2Model ----
(***************************************************************************)
(* GrootFSM (src/fsm/base.py): State, Transition, FSM and FSMBuilder.      *)
(*                                                                         *)
(* A State is [name, before_exit, after_entry], a Transition is            *)
(* [name, source_name, destination_name, on_transition]; the hook fields   *)
(* say whether a callable was given (TRUE) or the default None (FALSE).    *)
(* An exception is [type, message, args]: the message is the format string *)
(* of the raise statement and args are the values formatted into it.       *)
(*                                                                         *)
(* Two specifications share the variables:                                 *)
(*   SpecBuild  the builder is filled call by call and build() is called;  *)
(*   Spec       a filled builder is built and the FSM is driven by         *)
(*              execute_transition / execute_transition_to, one source     *)
(*              line of FSM._execute per step.                             *)
(***************************************************************************)
EXTENDS Integers, Sequences, FiniteSets, TLC

VARIABLES
    builder_states,              \* FSMBuilder._states
    builder_transitions,         \* FSMBuilder._transitions
    builder_initial_state_name,  \* FSMBuilder._initial_state_name
    built,                       \* "no": build() not called, "yes": an FSM exists, "failed": FSM() raised
    state_transition_map,        \* FSM._state_transition_map
    state,                       \* FSM._state
    pc,                          \* position of the caller inside execute_* / _execute
    frame,                       \* arguments of the running _execute call
    last,                        \* the latest execute_* call: operation, argument, payload, and
                                 \* fsm.state and the hooks' call counts read just before the call
    raised,                      \* exception the latest operation raised to its caller (NoException if it returned)
    trace,                       \* hooks invoked by the latest execute_* call, in call order, with their payload
    call_count,                  \* number of invocations of every hook so far (Mock.call_count)
    ncalls,                      \* number of execute_* calls made so far
    use_lock,                    \* whether the callers' threads wrap every execute_* call in one lock
    lock,                        \* the thread holding the callers' lock (NoThread if it is free)
    threads,                     \* per calling thread: its position inside execute_* / _execute and its locals
    hook_order,                  \* what is kept of the order in which the threads' calls invoked hooks:
                                 \* the call that invoked the latest hook, the calls that invoked one,
                                 \* and the calls that invoked one after another call came in between
    stack                        \* the execute_* calls that are running when hooks call back into the FSM,
                                 \* outermost first; the last one runs, the others wait inside a hook

vars == <<builder_states, builder_transitions, builder_initial_state_name, built,
          state_transition_map, state, pc, frame, last, raised, trace, call_count, ncalls,
          use_lock, lock, threads, hook_order, stack>>

(***************************************************************************)
(* Bounds and input universes                                              *)
(***************************************************************************)
MaxStates == 2
MaxTransitions == 2
MaxCalls == 3
MaxThreadCalls == 1
MaxDepth == 2

None == "<None>"

BuilderStateNames == {"", "A", "B"}
StateNames == {"A", "B", "C"}
TransitionNames == {"t", "u"}
RunTransitionNames == {"t1", "t2", "t3", "t4"}
UnknownName == "Z"
Payloads == { {}, {<<"test_arg", 111>>} }

(***************************************************************************)
(* State, Transition, exceptions                                           *)
(***************************************************************************)
NewState(name, before_exit, after_entry) ==
    [name |-> name, before_exit |-> before_exit, after_entry |-> after_entry]

NewTransition(name, source_name, destination_name, on_transition) ==
    [name |-> name, source_name |-> source_name,
     destination_name |-> destination_name, on_transition |-> on_transition]

FSMException(message, args) == [type |-> "FSMException", message |-> message, args |-> args]

NoException == [type |-> "None", message |-> "", args |-> << >>]

\* the exception a user hook raises; it is not an FSMException
HookException(hook) == [type |-> "HookError", message |-> "raised by hook", args |-> hook]

\* identities of the user callables
BeforeExitHook(s) == <<"before_exit", s.name>>
AfterEntryHook(s) == <<"after_entry", s.name>>
OnTransitionHook(t) == <<"on_transition", t.source_name, t.name>>

AllNames == BuilderStateNames \cup StateNames \cup {UnknownName}

AllHooks ==
    {<<"before_exit", n>> : n \in AllNames} \cup {<<"after_entry", n>> : n \in AllNames}
    \cup {<<"on_transition", s, n>> : s \in AllNames, n \in TransitionNames \cup RunTransitionNames}

NoFrame == [source_state |-> NewState(None, FALSE, FALSE),
            destination_state |-> NewState(None, FALSE, FALSE),
            transition |-> NewTransition(None, None, None, FALSE),
            kwargs |-> {}]

NoCall == [op |-> "none", arg |-> None, kwargs |-> {}, state_before |-> None,
           call_count_before |-> [h \in AllHooks |-> 0]]

\* the threads of the caller that share one FSM
Threads == {"T1", "T2"}
NoThread == "<no thread>"

\* a thread outside execute_*: no call made, no local bound
IdleThread == [pc |-> "idle", calls |-> 0, op |-> "none", arg |-> None,
               resolved_from |-> None, raised |-> NoException,
               transition |-> NewTransition(None, None, None, FALSE),
               source_state |-> NewState(None, FALSE, FALSE),
               destination_state |-> NewState(None, FALSE, FALSE)]

NoHooks == [last |-> <<NoThread, 0>>, calls |-> {}, interleaved |-> {}]

\* the FSM is driven by one caller only
NoThreads ==
    /\ use_lock = FALSE
    /\ lock = NoThread
    /\ threads = [t \in Threads |-> IdleThread]
    /\ hook_order = NoHooks

(***************************************************************************)
(* FSM construction                                                        *)
(***************************************************************************)
EmptyMap == << >>

_is_valid_state(map, state_name) == state_name \in DOMAIN map

\* variant: a repeated state name replaces the entry made for the first one
_validate_and_add_state_overwrite(map, s) ==
    [raised |-> NoException,
     map |-> (s.name :> [state |-> s, transitions |-> << >>, destination_states |-> << >>]) @@ map]

\* result of a validation step: the exception raised (or NoException) and the map afterwards
_validate_and_add_state(map, s) ==
    IF s.name \in DOMAIN map
    THEN [raised |-> FSMException("State name must be unique, cannot add duplicate.", << >>),
          map |-> map]
    ELSE [raised |-> NoException,
          map |-> (s.name :> [state |-> s, transitions |-> << >>, destination_states |-> << >>]) @@ map]

\* variant: a transition name must be unique among the transitions of all sources
_validate_and_add_transition_global_names(map, t) ==
    IF ~ _is_valid_state(map, t.source_name)
    THEN [raised |-> FSMException("Invalid source state:{} in transition:{}", <<t.source_name, t.name>>),
          map |-> map]
    ELSE IF ~ _is_valid_state(map, t.destination_name)
    THEN [raised |-> FSMException("Invalid destination state:{} in transition:{}", <<t.destination_name, t.name>>),
          map |-> map]
    ELSE IF t.destination_name \in DOMAIN map[t.source_name].destination_states
    THEN [raised |-> FSMException("Transition between source:{} and destination:{} already exists.",
                                  <<t.source_name, t.destination_name>>),
          map |-> map]
    ELSE IF \E s \in DOMAIN map : t.name \in DOMAIN map[s].transitions
    THEN [raised |-> FSMException("Duplication transition:{} from source:{}", <<t.name, t.source_name>>),
          map |-> map]
    ELSE [raised |-> NoException,
          map |-> [map EXCEPT ![t.source_name] =
                      [@ EXCEPT !.transitions = (t.name :> t) @@ @,
                                !.destination_states = (t.destination_name :> t) @@ @]]]

\* variant: the duplicate-name check of line 216 is made before the duplicate-edge check of line 214
_validate_and_add_transition_name_first(map, t) ==
    IF ~ _is_valid_state(map, t.source_name)
    THEN [raised |-> FSMException("Invalid source state:{} in transition:{}", <<t.source_name, t.name>>),
          map |-> map]
    ELSE IF ~ _is_valid_state(map, t.destination_name)
    THEN [raised |-> FSMException("Invalid destination state:{} in transition:{}", <<t.destination_name, t.name>>),
          map |-> map]
    ELSE IF t.name \in DOMAIN map[t.source_name].transitions
    THEN [raised |-> FSMException("Duplication transition:{} from source:{}", <<t.name, t.source_name>>),
          map |-> map]
    ELSE IF t.destination_name \in DOMAIN map[t.source_name].destination_states
    THEN [raised |-> FSMException("Transition between source:{} and destination:{} already exists.",
                                  <<t.source_name, t.destination_name>>),
          map |-> map]
    ELSE [raised |-> NoException,
          map |-> [map EXCEPT ![t.source_name] =
                      [@ EXCEPT !.transitions = (t.name :> t) @@ @,
                                !.destination_states = (t.destination_name :> t) @@ @]]]

\* variant: line 221 stores the transition under its name, as line 220 does, instead of
\* under its destination
_validate_and_add_transition_keyed_by_name(map, t) ==
    IF ~ _is_valid_state(map, t.source_name)
    THEN [raised |-> FSMException("Invalid source state:{} in transition:{}", <<t.source_name, t.name>>),
          map |-> map]
    ELSE IF ~ _is_valid_state(map, t.destination_name)
    THEN [raised |-> FSMException("Invalid destination state:{} in transition:{}", <<t.destination_name, t.name>>),
          map |-> map]
    ELSE IF t.destination_name \in DOMAIN map[t.source_name].destination_states
    THEN [raised |-> FSMException("Transition between source:{} and destination:{} already exists.",
                                  <<t.source_name, t.destination_name>>),
          map |-> map]
    ELSE IF t.name \in DOMAIN map[t.source_name].transitions
    THEN [raised |-> FSMException("Duplication transition:{} from source:{}", <<t.name, t.source_name>>),
          map |-> map]
    ELSE [raised |-> NoException,
          map |-> [map EXCEPT ![t.source_name] =
                      [@ EXCEPT !.transitions = (t.name :> t) @@ @,
                                !.destination_states = (t.name :> t) @@ @]]]

_validate_and_add_transition(map, t) ==
    IF ~ _is_valid_state(map, t.source_name)
    THEN [raised |-> FSMException("Invalid source state:{} in transition:{}", <<t.source_name, t.name>>),
          map |-> map]
    ELSE IF ~ _is_valid_state(map, t.destination_name)
    THEN [raised |-> FSMException("Invalid destination state:{} in transition:{}", <<t.destination_name, t.name>>),
          map |-> map]
    ELSE IF t.destination_name \in DOMAIN map[t.source_name].destination_states
    THEN [raised |-> FSMException("Transition between source:{} and destination:{} already exists.",
                                  <<t.source_name, t.destination_name>>),
          map |-> map]
    ELSE IF t.name \in DOMAIN map[t.source_name].transitions
    THEN [raised |-> FSMException("Duplication transition:{} from source:{}", <<t.name, t.source_name>>),
          map |-> map]
    ELSE [raised |-> NoException,
          map |-> [map EXCEPT ![t.source_name] =
                      [@ EXCEPT !.transitions = (t.name :> t) @@ @,
                                !.destination_states = (t.destination_name :> t) @@ @]]]

\* variant: only the membership test of line 231 is made, not `not initial_state_name`
_validate_and_set_initial_state_listed_only(map, initial_state_name) ==
    IF initial_state_name \notin DOMAIN map
    THEN [raised |-> FSMException("Incorrect initial state. Set a valid initial state name.", << >>),
          state |-> None]
    ELSE [raised |-> NoException, state |-> initial_state_name]

_validate_and_set_initial_state(map, initial_state_name) ==
    IF initial_state_name = None \/ initial_state_name = "" \/ initial_state_name \notin DOMAIN map
    THEN [raised |-> FSMException("Incorrect initial state. Set a valid initial state name.", << >>),
          state |-> None]
    ELSE [raised |-> NoException, state |-> initial_state_name]

\* the loop `for state in state_list`, from index i on
RECURSIVE AddStates(_, _, _)
AddStates(map, state_list, i) ==
    IF i > Len(state_list) THEN [raised |-> NoException, map |-> map]
    ELSE LET r == _validate_and_add_state(map, state_list[i])
         IN IF r.raised # NoException THEN r ELSE AddStates(r.map, state_list, i + 1)

\* the loop `for transition in transition_list`, from index i on
RECURSIVE AddTransitions(_, _, _)
AddTransitions(map, transition_list, i) ==
    IF i > Len(transition_list) THEN [raised |-> NoException, map |-> map]
    ELSE LET r == _validate_and_add_transition(map, transition_list[i])
         IN IF r.raised # NoException THEN r ELSE AddTransitions(r.map, transition_list, i + 1)

\* variant: the loop of line 115 runs before the loop of line 111, so that the transitions
\* are validated while no state is registered yet
FSM__init__transitions_first(initial_state_name, state_list, transition_list) ==
    LET rt == AddTransitions(EmptyMap, transition_list, 1)
        rs == AddStates(rt.map, state_list, 1)
        ri == _validate_and_set_initial_state(rs.map, initial_state_name)
    IN IF rt.raised # NoException THEN [raised |-> rt.raised, map |-> EmptyMap, state |-> None]
       ELSE IF rs.raised # NoException THEN [raised |-> rs.raised, map |-> EmptyMap, state |-> None]
       ELSE IF ri.raised # NoException THEN [raised |-> ri.raised, map |-> EmptyMap, state |-> None]
       ELSE [raised |-> NoException, map |-> rs.map, state |-> ri.state]

\* variant: the initial state is validated right after the states, before the transitions
FSM__init__initial_first(initial_state_name, state_list, transition_list) ==
    LET rs == AddStates(EmptyMap, state_list, 1)
        ri == _validate_and_set_initial_state(rs.map, initial_state_name)
        rt == AddTransitions(rs.map, transition_list, 1)
    IN IF rs.raised # NoException THEN [raised |-> rs.raised, map |-> EmptyMap, state |-> None]
       ELSE IF ri.raised # NoException THEN [raised |-> ri.raised, map |-> EmptyMap, state |-> None]
       ELSE IF rt.raised # NoException THEN [raised |-> rt.raised, map |-> EmptyMap, state |-> None]
       ELSE [raised |-> NoException, map |-> rt.map, state |-> ri.state]

\* FSM.__init__: the exception it raises, and the fields of the new object when it returns
FSM__init__(initial_state_name, state_list, transition_list) ==
    LET rs == AddStates(EmptyMap, state_list, 1)
        rt == AddTransitions(rs.map, transition_list, 1)
        ri == _validate_and_set_initial_state(rt.map, initial_state_name)
    IN IF rs.raised # NoException THEN [raised |-> rs.raised, map |-> EmptyMap, state |-> None]
       ELSE IF rt.raised # NoException THEN [raised |-> rt.raised, map |-> EmptyMap, state |-> None]
       ELSE IF ri.raised # NoException THEN [raised |-> ri.raised, map |-> EmptyMap, state |-> None]
       ELSE [raised |-> NoException, map |-> rt.map, state |-> ri.state]

(***************************************************************************)
(* FSMBuilder.  add_state and add_transition generate a name and call      *)
(* add_named_state and add_named_transition with it, so they are these     *)
(* actions with a name of the universe.  One build() is made per builder.  *)
(***************************************************************************)
UNCHANGED_fsm == UNCHANGED <<built, state_transition_map, state, pc, frame, last, raised,
                             trace, call_count, ncalls, use_lock, lock, threads, hook_order, stack>>

add_named_state(name, before_exit, after_entry) ==
    /\ built = "no"
    /\ Len(builder_states) < MaxStates
    /\ builder_states' = Append(builder_states, NewState(name, before_exit, after_entry))
    /\ UNCHANGED <<builder_transitions, builder_initial_state_name>>
    /\ UNCHANGED_fsm

add_named_transition(transition_name, source_name, destination_name, on_transition) ==
    /\ built = "no"
    /\ Len(builder_transitions) < MaxTransitions
    /\ builder_transitions' = Append(builder_transitions,
            NewTransition(transition_name, source_name, destination_name, on_transition))
    /\ UNCHANGED <<builder_states, builder_initial_state_name>>
    /\ UNCHANGED_fsm

\* a call that repeats the recorded name changes nothing and is left out
set_initial_state(state_name) ==
    /\ built = "no"
    /\ state_name # builder_initial_state_name
    /\ builder_initial_state_name' = state_name
    /\ UNCHANGED <<builder_states, builder_transitions>>
    /\ UNCHANGED_fsm

\* variant: a successful construction "enters" the initial state, that is runs its entry hook
build_enters_initial ==
    /\ built = "no"
    /\ LET r == FSM__init__(builder_initial_state_name, builder_states, builder_transitions)
           entered == r.raised = NoException /\ r.map[r.state].state.after_entry
       IN /\ raised' = r.raised
          /\ built' = IF r.raised = NoException THEN "yes" ELSE "failed"
          /\ state_transition_map' = r.map
          /\ state' = r.state
          /\ trace' = IF entered THEN << [hook |-> <<"after_entry", r.state>>, kwargs |-> {}] >> ELSE trace
          /\ call_count' = IF entered THEN [call_count EXCEPT ![<<"after_entry", r.state>>] = @ + 1]
                           ELSE call_count
    /\ UNCHANGED <<builder_states, builder_transitions, builder_initial_state_name,
                   pc, frame, last, ncalls, use_lock, lock, threads, hook_order, stack>>

build ==
    /\ built = "no"
    /\ LET r == FSM__init__(builder_initial_state_name, builder_states, builder_transitions)
       IN /\ raised' = r.raised
          /\ built' = IF r.raised = NoException THEN "yes" ELSE "failed"
          /\ state_transition_map' = r.map
          /\ state' = r.state
    /\ UNCHANGED <<builder_states, builder_transitions, builder_initial_state_name,
                   pc, frame, last, trace, call_count, ncalls, use_lock, lock, threads, hook_order, stack>>

InitBuilder ==
    /\ builder_states = << >>
    /\ builder_transitions = << >>
    /\ builder_initial_state_name = None
    /\ built = "no"
    /\ state_transition_map = EmptyMap
    /\ state = None
    /\ pc = "idle"
    /\ frame = NoFrame
    /\ last = NoCall
    /\ raised = NoException
    /\ trace = << >>
    /\ call_count = [h \in AllHooks |-> 0]
    /\ ncalls = 0
    /\ NoThreads
    /\ stack = << >>

NextBuild ==
    \/ \E name \in BuilderStateNames : add_named_state(name, TRUE, TRUE)
    \/ \E name \in TransitionNames, s, d \in BuilderStateNames : add_named_transition(name, s, d, TRUE)
    \/ \E name \in BuilderStateNames : set_initial_state(name)
    \/ build

SpecBuild == InitBuilder /\ [][NextBuild]_vars

(***************************************************************************)
(* FSM execution                                                           *)
(***************************************************************************)
UNCHANGED_builder == UNCHANGED <<builder_states, builder_transitions, builder_initial_state_name, built,
                                 use_lock, lock, threads, hook_order, stack>>

NoTransition == NewTransition(None, None, None, FALSE)

\* variant: the name is looked up among the transitions of every state when the
\* current state has no transition of that name
lookup_transition_any_source(map, current, transition_name) ==
    LET holders == {s \in DOMAIN map : transition_name \in DOMAIN map[s].transitions}
    IN IF transition_name \in DOMAIN map[current].transitions
       THEN [raised |-> NoException, transition |-> map[current].transitions[transition_name]]
       ELSE IF holders # {}
       THEN [raised |-> NoException,
             transition |-> map[CHOOSE s \in holders : TRUE].transitions[transition_name]]
       ELSE [raised |-> FSMException("Invalid transition:{} from source:{}", <<transition_name, current>>),
             transition |-> NoTransition]

\* execute_transition lines 136-138: the transition named transition_name among the
\* outgoing transitions of the current state, or the exception raised when .get() gives None
lookup_transition(map, current, transition_name) ==
    LET transitions == map[current].transitions
    IN IF transition_name \notin DOMAIN transitions
       THEN [raised |-> FSMException("Invalid transition:{} from source:{}", <<transition_name, current>>),
             transition |-> NoTransition]
       ELSE [raised |-> NoException, transition |-> transitions[transition_name]]

\* variant: a registered destination is accepted without the edge lookup of lines 155-157;
\* where no transition joins the two states the FSM moves with no transition hook
lookup_transition_to_any_registered(map, current, destination_name) ==
    LET destination_states == map[current].destination_states
    IN IF ~ _is_valid_state(map, destination_name)
       THEN [raised |-> FSMException("Cannot execute transition. Invalid state:{}", <<destination_name>>),
             transition |-> NoTransition]
       ELSE IF destination_name \notin DOMAIN destination_states
       THEN [raised |-> NoException,
             transition |-> NewTransition(None, current, destination_name, FALSE)]
       ELSE [raised |-> NoException, transition |-> destination_states[destination_name]]

\* variant: the edge is looked up from the destination to the current state
lookup_transition_to_reversed(map, current, destination_name) ==
    IF ~ _is_valid_state(map, destination_name)
    THEN [raised |-> FSMException("Cannot execute transition. Invalid state:{}", <<destination_name>>),
          transition |-> NoTransition]
    ELSE IF current \notin DOMAIN map[destination_name].destination_states
    THEN [raised |-> FSMException("Invalid transition between source:{} and destination:{}",
                                  <<current, destination_name>>),
          transition |-> NoTransition]
    ELSE [raised |-> NoException, transition |-> map[destination_name].destination_states[current]]

\* variant: the edge lookup of line 155 is made without the registered-state check of line 152
lookup_transition_to_edge_only(map, current, destination_name) ==
    LET destination_states == map[current].destination_states
    IN IF destination_name \notin DOMAIN destination_states
       THEN [raised |-> FSMException("Invalid transition between source:{} and destination:{}",
                                     <<current, destination_name>>),
             transition |-> NoTransition]
       ELSE [raised |-> NoException, transition |-> destination_states[destination_name]]

\* execute_transition_to lines 152-157: the registered-state check, then the lookup in the
\* destination-indexed map of the current state
lookup_transition_to(map, current, destination_name) ==
    LET destination_states == map[current].destination_states
    IN IF ~ _is_valid_state(map, destination_name)
       THEN [raised |-> FSMException("Cannot execute transition. Invalid state:{}", <<destination_name>>),
             transition |-> NoTransition]
       ELSE IF destination_name \notin DOMAIN destination_states
       THEN [raised |-> FSMException("Invalid transition between source:{} and destination:{}",
                                     <<current, destination_name>>),
             transition |-> NoTransition]
       ELSE [raised |-> NoException, transition |-> destination_states[destination_name]]

\* variant: the exit hook of the current state is invoked before the lookup result is tested
Call_exit_first(op, arg, kwargs, r, destination_state_name) ==
    /\ built = "yes" /\ pc = "idle" /\ ncalls < MaxCalls
    /\ ncalls' = ncalls + 1
    /\ last' = [op |-> op, arg |-> arg, kwargs |-> kwargs, state_before |-> state,
                call_count_before |-> call_count]
    /\ raised' = r.raised
    /\ IF r.raised # NoException
       THEN /\ UNCHANGED <<pc, frame>>
            /\ IF state_transition_map[state].state.before_exit
               THEN /\ trace' = << [hook |-> BeforeExitHook(state_transition_map[state].state),
                                    kwargs |-> kwargs] >>
                    /\ call_count' = [call_count EXCEPT
                                         ![BeforeExitHook(state_transition_map[state].state)] = @ + 1]
               ELSE /\ trace' = << >>
                    /\ UNCHANGED call_count
       ELSE /\ frame' = [source_state |-> state_transition_map[state].state,
                         destination_state |-> state_transition_map[destination_state_name].state,
                         transition |-> r.transition,
                         kwargs |-> kwargs]
            /\ pc' = "exit_state"
            /\ trace' = << >>
            /\ UNCHANGED call_count
    /\ UNCHANGED <<state_transition_map, state>>
    /\ UNCHANGED_builder

\* variant: the lookup of an unregistered destination creates an empty entry for it,
\* as `setdefault` or a defaultdict would do where the code uses `get`
Call_registers_unknown(op, arg, kwargs, r, destination_state_name) ==
    /\ built = "yes" /\ pc = "idle" /\ ncalls < MaxCalls
    /\ ncalls' = ncalls + 1
    /\ last' = [op |-> op, arg |-> arg, kwargs |-> kwargs, state_before |-> state,
                call_count_before |-> call_count]
    /\ trace' = << >>
    /\ raised' = r.raised
    /\ state_transition_map' =
          IF op = "execute_transition_to" /\ arg \notin DOMAIN state_transition_map
          THEN (arg :> [state |-> NewState(arg, FALSE, FALSE), transitions |-> << >>,
                        destination_states |-> << >>]) @@ state_transition_map
          ELSE state_transition_map
    /\ IF r.raised # NoException
       THEN UNCHANGED <<pc, frame>>
       ELSE /\ frame' = [source_state |-> state_transition_map[state].state,
                         destination_state |-> state_transition_map[destination_state_name].state,
                         transition |-> r.transition,
                         kwargs |-> kwargs]
            /\ pc' = "exit_state"
    /\ UNCHANGED <<state, call_count>>
    /\ UNCHANGED_builder

\* the call of an execute_* method: it is recorded, then it either raises r.raised or
\* binds the parameters of _execute and reaches _execute's first hook line
Call(op, arg, kwargs, r, destination_state_name) ==
    /\ built = "yes" /\ pc = "idle" /\ ncalls < MaxCalls
    /\ ncalls' = ncalls + 1
    /\ last' = [op |-> op, arg |-> arg, kwargs |-> kwargs, state_before |-> state,
                call_count_before |-> call_count]
    /\ trace' = << >>
    /\ raised' = r.raised
    /\ IF r.raised # NoException
       THEN UNCHANGED <<pc, frame>>
       ELSE /\ frame' = [source_state |-> state_transition_map[state].state,
                         destination_state |-> state_transition_map[destination_state_name].state,
                         transition |-> r.transition,
                         kwargs |-> kwargs]
            /\ pc' = "exit_state"
    /\ UNCHANGED <<state_transition_map, state, call_count>>
    /\ UNCHANGED_builder

\* execute_transition, lines 136-143; the destination State is that of transition.destination_name
execute_transition(transition_name, kwargs) ==
    LET r == lookup_transition(state_transition_map, state, transition_name)
    IN Call("execute_transition", transition_name, kwargs, r, r.transition.destination_name)

\* variant: execute_transition_to moves between the states with their hooks only, the
\* transition it found is passed on without its callable
execute_transition_to_state_hooks_only(destination_name, kwargs) ==
    LET r == lookup_transition_to(state_transition_map, state, destination_name)
    IN Call("execute_transition_to", destination_name, kwargs,
            [r EXCEPT !.transition.on_transition = FALSE], destination_name)

\* execute_transition_to, lines 152-162; the destination State is that of destination_name
execute_transition_to(destination_name, kwargs) ==
    LET r == lookup_transition_to(state_transition_map, state, destination_name)
    IN Call("execute_transition_to", destination_name, kwargs, r, destination_name)

\* the user callable that is running while pc is inside a hook
RunningHook ==
    CASE pc = "before_exit" -> BeforeExitHook(frame.source_state)
      [] pc = "on_transition" -> OnTransitionHook(frame.transition)
      [] pc = "after_entry" -> AfterEntryHook(frame.destination_state)

\* variant: lines 175 and 176 exchanged, the entry hook runs before the transition hook
AfterHook_swapped(p) ==
    CASE p = "before_exit" -> "enter_state"
      [] p = "after_entry" -> "execute"
      [] p = "on_transition" -> "set_state"

\* the line of _execute reached when the hook running at p returns
AfterHook(p) ==
    CASE p = "before_exit" -> "execute"
      [] p = "on_transition" -> "enter_state"
      [] p = "after_entry" -> "set_state"

InHook == pc \in {"before_exit", "on_transition", "after_entry"}

\* variant: the callable is invoked without arguments, `hook()` for `hook(**kwargs)`
InvokeIfSet_without_kwargs(is_set, hook, inside, after) ==
    /\ IF is_set
       THEN /\ pc' = inside
            /\ trace' = Append(trace, [hook |-> hook, kwargs |-> {}])
            /\ call_count' = [call_count EXCEPT ![hook] = @ + 1]
       ELSE /\ pc' = after
            /\ UNCHANGED <<trace, call_count>>
    /\ UNCHANGED <<state_transition_map, state, frame, last, raised, ncalls>>
    /\ UNCHANGED_builder

\* a method that invokes `hook` with **kwargs when it is set and is a no-op otherwise
InvokeIfSet(is_set, hook, inside, after) ==
    /\ IF is_set
       THEN /\ pc' = inside
            /\ trace' = Append(trace, [hook |-> hook, kwargs |-> frame.kwargs])
            /\ call_count' = [call_count EXCEPT ![hook] = @ + 1]
       ELSE /\ pc' = after
            /\ UNCHANGED <<trace, call_count>>
    /\ UNCHANGED <<state_transition_map, state, frame, last, raised, ncalls>>
    /\ UNCHANGED_builder

\* variant: a self-transition is treated as "nothing to do" and goes straight to line 177
exit_state_skips_self ==
    /\ pc = "exit_state"
    /\ IF frame.source_state.name = frame.destination_state.name
       THEN /\ pc' = "set_state"
            /\ UNCHANGED <<state_transition_map, state, frame, last, raised, trace, call_count, ncalls>>
            /\ UNCHANGED_builder
       ELSE InvokeIfSet(frame.source_state.before_exit, BeforeExitHook(frame.source_state),
                        "before_exit", AfterHook("before_exit"))

\* _execute line 174: source_state.exit_state(**kwargs)
exit_state ==
    /\ pc = "exit_state"
    /\ InvokeIfSet(frame.source_state.before_exit, BeforeExitHook(frame.source_state),
                   "before_exit", AfterHook("before_exit"))

\* _execute line 175: transition.execute(**kwargs)
execute ==
    /\ pc = "execute"
    /\ InvokeIfSet(frame.transition.on_transition, OnTransitionHook(frame.transition),
                   "on_transition", AfterHook("on_transition"))

\* _execute line 176: destination_state.enter_state(**kwargs)
enter_state ==
    /\ pc = "enter_state"
    /\ InvokeIfSet(frame.destination_state.after_entry, AfterEntryHook(frame.destination_state),
                   "after_entry", AfterHook("after_entry"))

\* the running hook returns: _execute goes on with its next line
hook_returns ==
    /\ InHook
    /\ pc' = AfterHook(pc)
    /\ UNCHANGED <<state_transition_map, state, frame, last, raised, trace, call_count, ncalls>>
    /\ UNCHANGED_builder

\* variant: the current state is cleared when a hook raises, as an "in transition" marker
\* set before the hooks and never restored would leave it
hook_raises_clears_state ==
    /\ InHook
    /\ raised' = HookException(RunningHook)
    /\ pc' = "idle"
    /\ frame' = NoFrame
    /\ state' = None
    /\ UNCHANGED <<state_transition_map, last, trace, call_count, ncalls>>
    /\ UNCHANGED_builder

\* variant: line 177 is run on the way out of a raising hook as well
hook_raises_sets_state ==
    /\ InHook
    /\ raised' = HookException(RunningHook)
    /\ pc' = "idle"
    /\ frame' = NoFrame
    /\ state' = frame.destination_state.name
    /\ UNCHANGED <<state_transition_map, last, trace, call_count, ncalls>>
    /\ UNCHANGED_builder

\* the running hook raises: nothing catches it, so _execute and execute_* are left
hook_raises ==
    /\ InHook
    /\ raised' = HookException(RunningHook)
    /\ pc' = "idle"
    /\ frame' = NoFrame
    /\ UNCHANGED <<state_transition_map, state, last, trace, call_count, ncalls>>
    /\ UNCHANGED_builder

\* variant: line 177 assigns the name of the source state
set_state_keeps_source ==
    /\ pc = "set_state"
    /\ state' = frame.source_state.name
    /\ pc' = "idle"
    /\ frame' = NoFrame
    /\ UNCHANGED <<state_transition_map, last, raised, trace, call_count, ncalls>>
    /\ UNCHANGED_builder

\* _execute line 177: self._state = destination_state.name, and the return to the caller
set_state ==
    /\ pc = "set_state"
    /\ state' = frame.destination_state.name
    /\ pc' = "idle"
    /\ frame' = NoFrame
    /\ UNCHANGED <<state_transition_map, last, raised, trace, call_count, ncalls>>
    /\ UNCHANGED_builder

(***************************************************************************)
(* Spec: a builder filled with three states and their transitions is built *)
(* and the FSM is driven.  The filled builders hold the states A, B, C and *)
(* one of the transition lists of RunScenarios, with at most one callable  *)
(* left unset, and name any of the three states as the initial state.      *)
(***************************************************************************)
RunHooks ==
    {<<"before_exit", n>> : n \in StateNames} \cup {<<"after_entry", n>> : n \in StateNames}
    \cup {<<"on_transition", s, n>> : s \in StateNames, n \in RunTransitionNames}

RunStateList(unset) ==
    [i \in 1..3 |-> LET n == <<"A", "B", "C">>[i]
                    IN NewState(n, <<"before_exit", n>> \notin unset, <<"after_entry", n>> \notin unset)]

\* the transition lists, as (name, source, destination):
\*   the machine of tests/test_base.py; the same with names re-used across sources;
\*   a machine in which C has no outgoing transition and B has three
RunScenarios ==
    { << <<"t1", "A", "A">>, <<"t2", "A", "B">>, <<"t3", "B", "C">>, <<"t4", "C", "A">> >>,
      << <<"t1", "A", "A">>, <<"t2", "A", "B">>, <<"t1", "B", "C">>, <<"t2", "C", "A">> >>,
      << <<"t1", "A", "B">>, <<"t2", "B", "A">>, <<"t1", "B", "B">>, <<"t3", "B", "C">> >> }

RunTransitionList(scenario, unset) ==
    [i \in DOMAIN scenario |->
        NewTransition(scenario[i][1], scenario[i][2], scenario[i][3],
                      <<"on_transition", scenario[i][2], scenario[i][1]>> \notin unset)]

Init ==
    /\ \E unset \in {{}} \cup {{h} : h \in RunHooks}, scenario \in RunScenarios :
          /\ builder_states = RunStateList(unset)
          /\ builder_transitions = RunTransitionList(scenario, unset)
    /\ builder_initial_state_name \in StateNames
    /\ built = "no"
    /\ state_transition_map = EmptyMap
    /\ state = None
    /\ pc = "idle"
    /\ frame = NoFrame
    /\ last = NoCall
    /\ raised = NoException
    /\ trace = << >>
    /\ call_count = [h \in AllHooks |-> 0]
    /\ ncalls = 0
    /\ NoThreads
    /\ stack = << >>

Next ==
    \/ build
    \/ \E name \in RunTransitionNames \cup {UnknownName}, kwargs \in Payloads :
          execute_transition(name, kwargs)
    \/ \E name \in StateNames \cup {UnknownName}, kwargs \in Payloads :
          execute_transition_to(name, kwargs)
    \/ exit_state
    \/ execute
    \/ enter_state
    \/ hook_returns
    \/ hook_raises
    \/ set_state

Spec == Init /\ [][Next]_vars

(***************************************************************************)
(* SpecThreads: several threads of the caller drive one FSM.  The code     *)
(* holds no lock, so a thread may be preempted between any two reads or    *)
(* writes of self._state: execute_* reads it for the lookup (lines 136,    *)
(* 155) and again for the source State (lines 140, 159), and _execute      *)
(* writes it (line 177); a failed lookup reads it once more for the        *)
(* message (lines 138, 157).  A hook is user code and may be preempted     *)
(* while it runs.  With use_lock the callers wrap every call in            *)
(* `with lock:`.                                                           *)
(* The threads call execute_* without keyword arguments.                   *)
(***************************************************************************)
UNCHANGED_caller == UNCHANGED <<builder_states, builder_transitions, builder_initial_state_name, built,
                                state_transition_map, pc, frame, last, raised, trace, call_count,
                                ncalls, use_lock, stack>>

\* the caller's `with lock:` is entered (without use_lock the call is made at once)
lock_acquire(t) ==
    /\ built = "yes" /\ threads[t].pc = "idle" /\ threads[t].calls < MaxThreadCalls
    /\ use_lock => lock = NoThread
    /\ lock' = IF use_lock THEN t ELSE lock
    /\ threads' = [threads EXCEPT ![t].pc = "call", ![t].calls = @ + 1]
    /\ UNCHANGED <<state, hook_order>>
    /\ UNCHANGED_caller

\* the caller's `with lock:` is left, by the return of execute_* or by its exception
lock_release(t) ==
    /\ threads[t].pc = "done"
    /\ lock' = IF use_lock THEN NoThread ELSE lock
    /\ threads' = [threads EXCEPT ![t].pc = "idle"]
    /\ UNCHANGED <<state, hook_order>>
    /\ UNCHANGED_caller

\* the lookup of an execute_* method in thread t, made on the value self.state has now
\* (lines 136-137, 152 and 155-156): when it fails, the thread stands before the raise
\* statement, whose message is not yet formatted; else it keeps the transition it found
ThreadCall(t, op, arg, r) ==
    /\ threads[t].pc = "call"
    /\ threads' = [threads EXCEPT ![t] =
          IF r.raised # NoException
          THEN [IdleThread EXCEPT !.pc = "raise", !.calls = threads[t].calls, !.op = op, !.arg = arg]
          ELSE [IdleThread EXCEPT !.pc = "bind", !.calls = threads[t].calls, !.op = op, !.arg = arg,
                                  !.transition = r.transition, !.resolved_from = state]]
    /\ UNCHANGED <<state, lock, hook_order>>
    /\ UNCHANGED_caller

\* the raise statement thread t stands before: line 138 in execute_transition; in
\* execute_transition_to line 153 for an unregistered destination and line 157 otherwise.
\* Lines 138 and 157 read self.state again to format the message, line 153 does not
ThreadException(t) ==
    IF threads[t].op = "execute_transition"
    THEN FSMException("Invalid transition:{} from source:{}", <<threads[t].arg, state>>)
    ELSE IF ~ _is_valid_state(state_transition_map, threads[t].arg)
    THEN FSMException("Cannot execute transition. Invalid state:{}", <<threads[t].arg>>)
    ELSE FSMException("Invalid transition between source:{} and destination:{}",
                      <<state, threads[t].arg>>)

\* lines 138, 153 and 157 in thread t: the exception is made and execute_* is left
thread_raise(t) ==
    /\ threads[t].pc = "raise"
    /\ threads' = [threads EXCEPT ![t] =
          [IdleThread EXCEPT !.pc = "done", !.calls = threads[t].calls, !.raised = ThreadException(t)]]
    /\ UNCHANGED <<state, lock, hook_order>>
    /\ UNCHANGED_caller

\* execute_transition lines 136-137 in thread t
thread_execute_transition(t, transition_name) ==
    ThreadCall(t, "execute_transition", transition_name,
               lookup_transition(state_transition_map, state, transition_name))

\* execute_transition_to lines 152 and 155-156 in thread t
thread_execute_transition_to(t, destination_name) ==
    ThreadCall(t, "execute_transition_to", destination_name,
               lookup_transition_to(state_transition_map, state, destination_name))

\* lines 140-141 and 159-160 in thread t: self.state is read again for the source State
thread_bind(t) ==
    /\ threads[t].pc = "bind"
    /\ LET destination_state_name ==
              IF threads[t].op = "execute_transition"
              THEN threads[t].transition.destination_name
              ELSE threads[t].arg
       IN threads' = [threads EXCEPT
             ![t].source_state = state_transition_map[state].state,
             ![t].destination_state = state_transition_map[destination_state_name].state,
             ![t].pc = "exit_state"]
    /\ UNCHANGED <<state, lock, hook_order>>
    /\ UNCHANGED_caller

\* the hook thread t is running
ThreadRunningHook(t) ==
    CASE threads[t].pc = "before_exit" -> BeforeExitHook(threads[t].source_state)
      [] threads[t].pc = "on_transition" -> OnTransitionHook(threads[t].transition)
      [] threads[t].pc = "after_entry" -> AfterEntryHook(threads[t].destination_state)

ThreadInHook(t) == threads[t].pc \in {"before_exit", "on_transition", "after_entry"}

\* the order of hook invocations after a hook is invoked by `call`
Invoked(call) ==
    [last |-> call,
     calls |-> hook_order.calls \cup {call},
     interleaved |-> IF call \in hook_order.calls /\ hook_order.last # call
                     THEN hook_order.interleaved \cup {call}
                     ELSE hook_order.interleaved]

\* a method that invokes `hook` when it is set and is a no-op otherwise, in thread t
ThreadInvokeIfSet(t, is_set, hook, inside, after) ==
    /\ IF is_set
       THEN /\ threads' = [threads EXCEPT ![t].pc = inside]
            /\ hook_order' = Invoked(<<t, threads[t].calls>>)
       ELSE /\ threads' = [threads EXCEPT ![t].pc = after]
            /\ UNCHANGED hook_order
    /\ UNCHANGED <<state, lock>>
    /\ UNCHANGED_caller

\* _execute line 174 in thread t
thread_exit_state(t) ==
    /\ threads[t].pc = "exit_state"
    /\ ThreadInvokeIfSet(t, threads[t].source_state.before_exit, BeforeExitHook(threads[t].source_state),
                         "before_exit", AfterHook("before_exit"))

\* _execute line 175 in thread t
thread_execute(t) ==
    /\ threads[t].pc = "execute"
    /\ ThreadInvokeIfSet(t, threads[t].transition.on_transition, OnTransitionHook(threads[t].transition),
                         "on_transition", AfterHook("on_transition"))

\* _execute line 176 in thread t
thread_enter_state(t) ==
    /\ threads[t].pc = "enter_state"
    /\ ThreadInvokeIfSet(t, threads[t].destination_state.after_entry,
                         AfterEntryHook(threads[t].destination_state),
                         "after_entry", AfterHook("after_entry"))

\* the hook running in thread t returns
thread_hook_returns(t) ==
    /\ ThreadInHook(t)
    /\ threads' = [threads EXCEPT ![t].pc = AfterHook(threads[t].pc)]
    /\ UNCHANGED <<state, lock, hook_order>>
    /\ UNCHANGED_caller

\* the hook running in thread t raises: _execute and execute_* are left
thread_hook_raises(t) ==
    /\ ThreadInHook(t)
    /\ threads' = [threads EXCEPT ![t] = [IdleThread EXCEPT !.pc = "done", !.calls = threads[t].calls,
                                                          !.raised = HookException(ThreadRunningHook(t))]]
    /\ UNCHANGED <<state, lock, hook_order>>
    /\ UNCHANGED_caller

\* variant: line 177 assigns the name of the source state
thread_set_state_keeps_source(t) ==
    /\ threads[t].pc = "set_state"
    /\ state' = threads[t].source_state.name
    /\ threads' = [threads EXCEPT ![t] = [IdleThread EXCEPT !.pc = "done", !.calls = threads[t].calls]]
    /\ UNCHANGED <<lock, hook_order>>
    /\ UNCHANGED_caller

\* _execute line 177 in thread t: self._state = destination_state.name, and the return
thread_set_state(t) ==
    /\ threads[t].pc = "set_state"
    /\ state' = threads[t].destination_state.name
    /\ threads' = [threads EXCEPT ![t] = [IdleThread EXCEPT !.pc = "done", !.calls = threads[t].calls]]
    /\ UNCHANGED <<lock, hook_order>>
    /\ UNCHANGED_caller

\* the transitions of the machine of tests/test_base.py, as (name, source, destination)
ThreadScenario == << <<"t1", "A", "A">>, <<"t2", "A", "B">>, <<"t3", "B", "C">>, <<"t4", "C", "A">> >>

\* the FSM of the tests, built by the builder, with every callable set; the callers
\* either all use the lock or none does
InitThreads ==
    /\ builder_states = RunStateList({})
    /\ builder_transitions = RunTransitionList(ThreadScenario, {})
    /\ builder_initial_state_name \in StateNames
    /\ built = "no"
    /\ state_transition_map = EmptyMap
    /\ state = None
    /\ pc = "idle"
    /\ frame = NoFrame
    /\ last = NoCall
    /\ raised = NoException
    /\ trace = << >>
    /\ call_count = [h \in AllHooks |-> 0]
    /\ ncalls = 0
    /\ use_lock \in BOOLEAN
    /\ lock = NoThread
    /\ threads = [t \in Threads |-> IdleThread]
    /\ hook_order = NoHooks
    /\ stack = << >>

NextThreads ==
    \/ build
    \/ \E t \in Threads : lock_acquire(t)
    \/ \E t \in Threads, name \in RunTransitionNames \cup {UnknownName} :
          thread_execute_transition(t, name)
    \/ \E t \in Threads, name \in StateNames \cup {UnknownName} :
          thread_execute_transition_to(t, name)
    \/ \E t \in Threads : thread_raise(t)
    \/ \E t \in Threads : thread_bind(t)
    \/ \E t \in Threads : thread_exit_state(t)
    \/ \E t \in Threads : thread_execute(t)
    \/ \E t \in Threads : thread_enter_state(t)
    \/ \E t \in Threads : thread_hook_returns(t)
    \/ \E t \in Threads : thread_hook_raises(t)
    \/ \E t \in Threads : thread_set_state(t)
    \/ \E t \in Threads : lock_release(t)

SpecThreads == InitThreads /\ [][NextThreads]_vars

(***************************************************************************)
(* SpecReentrant: the hooks may call execute_* on the FSM they are hooks   *)
(* of.  Such a call runs to its end inside the hook, on the same           *)
(* self._state, while the call whose hook it is waits in line 174, 175 or  *)
(* 176.  stack holds one activation of _execute per running call: its      *)
(* position, its parameters, the call that was made, the value of          *)
(* self.state the call was looked up with, the hooks it has invoked, and   *)
(* the destination of the call that returned last while it was inside a    *)
(* hook (a call made by that hook, or by a hook of such a call), and the   *)
(* exception of the call its hook made while the hook has neither caught   *)
(* it nor been left by it.                                                 *)
(* The calls are made without keyword arguments.                           *)
(***************************************************************************)
UNCHANGED_outside ==
    UNCHANGED <<builder_states, builder_transitions, builder_initial_state_name, built,
                state_transition_map, pc, frame, last, trace, call_count,
                use_lock, lock, threads, hook_order>>

\* the activation that is running
Top == stack[Len(stack)]

Pop == SubSeq(stack, 1, Len(stack) - 1)

ActivationInHook(a) == a.pc \in {"before_exit", "on_transition", "after_entry"}

\* the user callable the activation a is inside
ActivationHook(a) ==
    CASE a.pc = "before_exit" -> BeforeExitHook(a.frame.source_state)
      [] a.pc = "on_transition" -> OnTransitionHook(a.frame.transition)
      [] a.pc = "after_entry" -> AfterEntryHook(a.frame.destination_state)

\* the hook of activation a runs its own code: no exception is on its way through it
HookRuns(a) == ActivationInHook(a) /\ a.exception = NoException

\* the stack after exception e has arrived in the running hook from the call it made
Arrives(e) == [stack EXCEPT ![Len(stack)].exception = e]

\* the stack after exception e has left the running hook and with it exit_state, execute or
\* enter_state (lines 35, 95, 44), _execute (lines 174-176) and execute_*, none of which
\* catches: e arrives in the hook that made this call, or at the caller
Leaves(e) ==
    IF Len(stack) = 1 THEN << >>
    ELSE [Pop EXCEPT ![Len(stack) - 1].exception = e]

\* an execute_* method is called, by the caller when no call is running and else by the
\* hook that is running: it raises r.raised, to the caller or into that hook, or enters
\* _execute
ReentrantCall(op, arg, kwargs, r, destination_state_name) ==
    /\ built = "yes" /\ ncalls < MaxCalls
    /\ IF stack = << >> THEN TRUE ELSE HookRuns(Top) /\ Len(stack) < MaxDepth
    /\ ncalls' = ncalls + 1
    /\ raised' = r.raised
    /\ IF r.raised # NoException
       THEN stack' = IF stack = << >> THEN stack ELSE Arrives(r.raised)
       ELSE stack' = Append(stack,
               [pc |-> "exit_state",
                frame |-> [source_state |-> state_transition_map[state].state,
                           destination_state |-> state_transition_map[destination_state_name].state,
                           transition |-> r.transition,
                           kwargs |-> kwargs],
                op |-> op, arg |-> arg,
                resolved_from |-> state,
                hooks |-> << >>,
                inner_returned |-> None,
                exception |-> NoException])
    /\ UNCHANGED state
    /\ UNCHANGED_outside

\* execute_transition, lines 136-143, called by the caller or by a hook
reentrant_execute_transition(transition_name, kwargs) ==
    LET r == lookup_transition(state_transition_map, state, transition_name)
    IN ReentrantCall("execute_transition", transition_name, kwargs, r, r.transition.destination_name)

\* execute_transition_to, lines 152-162, called by the caller or by a hook
reentrant_execute_transition_to(destination_name, kwargs) ==
    LET r == lookup_transition_to(state_transition_map, state, destination_name)
    IN ReentrantCall("execute_transition_to", destination_name, kwargs, r, destination_name)

\* a method of the running activation that invokes `hook` when it is set
StackInvokeIfSet(is_set, hook, inside, after) ==
    /\ stack' = [stack EXCEPT ![Len(stack)] =
                    IF is_set THEN [@ EXCEPT !.pc = inside, !.hooks = Append(@, hook)]
                    ELSE [@ EXCEPT !.pc = after]]
    /\ UNCHANGED <<state, raised, ncalls>>
    /\ UNCHANGED_outside

\* _execute line 174 of the running activation
stack_exit_state ==
    /\ stack # << >> /\ Top.pc = "exit_state"
    /\ StackInvokeIfSet(Top.frame.source_state.before_exit, BeforeExitHook(Top.frame.source_state),
                        "before_exit", AfterHook("before_exit"))

\* _execute line 175 of the running activation
stack_execute ==
    /\ stack # << >> /\ Top.pc = "execute"
    /\ StackInvokeIfSet(Top.frame.transition.on_transition, OnTransitionHook(Top.frame.transition),
                        "on_transition", AfterHook("on_transition"))

\* _execute line 176 of the running activation
stack_enter_state ==
    /\ stack # << >> /\ Top.pc = "enter_state"
    /\ StackInvokeIfSet(Top.frame.destination_state.after_entry,
                        AfterEntryHook(Top.frame.destination_state),
                        "after_entry", AfterHook("after_entry"))

\* the running hook returns: its _execute goes on with its next line
stack_hook_returns ==
    /\ stack # << >> /\ HookRuns(Top)
    /\ stack' = [stack EXCEPT ![Len(stack)].pc = AfterHook(@)]
    /\ UNCHANGED <<state, raised, ncalls>>
    /\ UNCHANGED_outside

\* the running hook raises an exception of its own: its _execute and execute_* are left
stack_hook_raises ==
    /\ stack # << >> /\ HookRuns(Top)
    /\ raised' = HookException(ActivationHook(Top))
    /\ stack' = Leaves(HookException(ActivationHook(Top)))
    /\ UNCHANGED <<state, ncalls>>
    /\ UNCHANGED_outside

\* the running hook does not catch the exception of the call it made: the exception leaves
\* the hook as it is, and the hook's _execute and execute_* with it
stack_hook_passes ==
    /\ stack # << >> /\ ActivationInHook(Top) /\ Top.exception # NoException
    /\ raised' = Top.exception
    /\ stack' = Leaves(Top.exception)
    /\ UNCHANGED <<state, ncalls>>
    /\ UNCHANGED_outside

\* the running hook catches the exception of the call it made and goes on
stack_hook_catches ==
    /\ stack # << >> /\ ActivationInHook(Top) /\ Top.exception # NoException
    /\ stack' = Arrives(NoException)
    /\ UNCHANGED <<state, raised, ncalls>>
    /\ UNCHANGED_outside

\* the return of the running activation into the hook that called it, or to the caller:
\* every call that waits has now had a call return inside one of its hooks
Return(destination_name) ==
    [i \in 1..(Len(stack) - 1) |-> [stack[i] EXCEPT !.inner_returned = destination_name]]

\* variant: line 177 is skipped when self._state is no longer the source state, so that
\* the state change of a call made by a hook is kept
stack_set_state_unless_moved ==
    /\ stack # << >> /\ Top.pc = "set_state"
    /\ state' = IF state = Top.frame.source_state.name
                THEN Top.frame.destination_state.name ELSE state
    /\ stack' = Return(Top.frame.destination_state.name)
    /\ raised' = NoException
    /\ UNCHANGED ncalls
    /\ UNCHANGED_outside

\* _execute line 177 of the running activation, and its return
stack_set_state ==
    /\ stack # << >> /\ Top.pc = "set_state"
    /\ state' = Top.frame.destination_state.name
    /\ stack' = Return(Top.frame.destination_state.name)
    /\ raised' = NoException
    /\ UNCHANGED ncalls
    /\ UNCHANGED_outside

\* a filled builder of RunScenarios with every callable set
InitReentrant ==
    /\ \E scenario \in RunScenarios :
          /\ builder_states = RunStateList({})
          /\ builder_transitions = RunTransitionList(scenario, {})
    /\ builder_initial_state_name \in StateNames
    /\ built = "no"
    /\ state_transition_map = EmptyMap
    /\ state = None
    /\ pc = "idle"
    /\ frame = NoFrame
    /\ last = NoCall
    /\ raised = NoException
    /\ trace = << >>
    /\ call_count = [h \in AllHooks |-> 0]
    /\ ncalls = 0
    /\ NoThreads
    /\ stack = << >>

NextReentrant ==
    \/ build
    \/ \E name \in RunTransitionNames \cup {UnknownName} : reentrant_execute_transition(name, {})
    \/ \E name \in StateNames \cup {UnknownName} : reentrant_execute_transition_to(name, {})
    \/ stack_exit_state
    \/ stack_execute
    \/ stack_enter_state
    \/ stack_hook_returns
    \/ stack_hook_raises
    \/ stack_hook_passes
    \/ stack_hook_catches
    \/ stack_set_state

SpecReentrant == InitReentrant /\ [][NextReentrant]_vars

(***************************************************************************)
(* Vocabulary of the properties.  Everything below is stated on the input  *)
(* given to the builder, not on the lookup structure the FSM made of it.   *)
(***************************************************************************)
RegisteredNames == {builder_states[i].name : i \in DOMAIN builder_states}

\* the input State called n (state names are unique in an FSM that was built)
InputState(n) == builder_states[CHOOSE i \in DOMAIN builder_states : builder_states[i].name = n]

\* the input transitions meant by "the transition named n out of s" and "the transition from s to d"
InputNamed(s, n) ==
    {builder_transitions[i] : i \in {j \in DOMAIN builder_transitions :
        builder_transitions[j].source_name = s /\ builder_transitions[j].name = n}}

InputEdge(s, d) ==
    {builder_transitions[i] : i \in {j \in DOMAIN builder_transitions :
        builder_transitions[j].source_name = s /\ builder_transitions[j].destination_name = d}}

\* the input transitions the latest execute_* call asks for
Requested ==
    IF last.op = "execute_transition" THEN InputNamed(last.state_before, last.arg)
    ELSE IF last.op = "execute_transition_to" THEN InputEdge(last.state_before, last.arg)
    ELSE {}

\* the callables of transition t that were given, in protocol order
HooksOf(t) ==
    (IF InputState(t.source_name).before_exit THEN << <<"before_exit", t.source_name>> >> ELSE << >>)
    \o (IF t.on_transition THEN << <<"on_transition", t.source_name, t.name>> >> ELSE << >>)
    \o (IF InputState(t.destination_name).after_entry THEN << <<"after_entry", t.destination_name>> >> ELSE << >>)

HookOrder == [i \in DOMAIN trace |-> trace[i].hook]

Called == built = "yes" /\ last.op # "none"
Returned == Called /\ pc = "idle" /\ raised = NoException

\* the error taxonomy of the specification, by the raise statement of base.py
DuplicateStateError(e) ==
    e.type = "FSMException" /\ e.message = "State name must be unique, cannot add duplicate."
UnknownStateError(e) ==
    e.type = "FSMException" /\ e.message \in {"Invalid source state:{} in transition:{}",
                                              "Invalid destination state:{} in transition:{}",
                                              "Cannot execute transition. Invalid state:{}"}
DuplicateEdgeError(e) ==
    e.type = "FSMException" /\ e.message = "Transition between source:{} and destination:{} already exists."
DuplicateTransitionNameError(e) ==
    e.type = "FSMException" /\ e.message = "Duplication transition:{} from source:{}"
InvalidInitialStateError(e) ==
    e.type = "FSMException" /\ e.message = "Incorrect initial state. Set a valid initial state name."
UnknownTransitionError(e) ==
    e.type = "FSMException" /\ e.message \in {"Invalid transition:{} from source:{}",
                                              "Invalid transition between source:{} and destination:{}"}

(***************************************************************************)
(* C1  In an execute call the given hooks run in the order exit hook of    *)
(* the source, transition hook, entry hook of the destination; the current *)
(* state keeps the source state's name while the call is running, hooks    *)
(* included, and is assigned only when the entry hook has returned.        *)
(***************************************************************************)
C1_HookOrder ==
    Called =>
       \A t \in Requested :
          /\ pc # "idle" => state = last.state_before /\ state = t.source_name
          /\ pc = "before_exit" => HookOrder = SubSeq(HooksOf(t), 1, 1)
          /\ pc = "on_transition" =>
                /\ Len(HookOrder) >= 1
                /\ HookOrder[Len(HookOrder)] = <<"on_transition", t.source_name, t.name>>
                /\ HookOrder = SubSeq(HooksOf(t), 1, Len(HookOrder))
          /\ pc \in {"after_entry", "set_state"} => HookOrder = HooksOf(t)
          /\ Returned => HookOrder = HooksOf(t)

C1_Witness ==
    /\ Returned
    /\ Len(trace) = 3
    /\ state # last.state_before

\* the number of times hook h occurs in the sequence of hooks hs
RECURSIVE Occurrences(_, _)
Occurrences(h, hs) ==
    IF hs = << >> THEN 0 ELSE (IF Head(hs) = h THEN 1 ELSE 0) + Occurrences(h, Tail(hs))

\* the call counts are those read before the latest call plus one per entry of hs
CountsGrewBy(hs) ==
    \A h \in AllHooks : call_count[h] = last.call_count_before[h] + Occurrences(h, hs)

(***************************************************************************)
(* C2  When a hook raises during an execute call the call ends there: the  *)
(* hooks invoked are exactly those up to the raising one (none later, the  *)
(* earlier ones stay counted), the caller gets the hook's own exception,   *)
(* and the current state is the one before the call.                       *)
(***************************************************************************)
C2_HookRaises ==
    (Called /\ raised.type = "HookError") =>
       /\ pc = "idle"
       /\ state = last.state_before
       /\ Requested # {}
       /\ \A t \in Requested :
             /\ Len(trace) >= 1
             /\ HookOrder = SubSeq(HooksOf(t), 1, Len(trace))
             /\ raised = HookException(HookOrder[Len(trace)])
             /\ CountsGrewBy(HookOrder)

C2_Witness ==
    /\ Called /\ raised.type = "HookError"
    /\ Len(trace) = 2
    /\ \E t \in Requested : Len(HooksOf(t)) = 3 /\ t.source_name # t.destination_name

(***************************************************************************)
(* C3  Construction from a valid input succeeds and the current state is   *)
(* the initial state name.  Valid: state names unique, every transition    *)
(* endpoint a listed state, no two transitions with the same (source,      *)
(* destination), no two with the same name and source, and an initial      *)
(* state name that is non-empty and listed.                                *)
(***************************************************************************)
UniqueStateNames ==
    \A i, j \in DOMAIN builder_states : i # j => builder_states[i].name # builder_states[j].name

EndpointsListed ==
    \A i \in DOMAIN builder_transitions :
        /\ builder_transitions[i].source_name \in RegisteredNames
        /\ builder_transitions[i].destination_name \in RegisteredNames

SameEdge(i, j) ==
    /\ builder_transitions[i].source_name = builder_transitions[j].source_name
    /\ builder_transitions[i].destination_name = builder_transitions[j].destination_name

SameNameAndSource(i, j) ==
    /\ builder_transitions[i].source_name = builder_transitions[j].source_name
    /\ builder_transitions[i].name = builder_transitions[j].name

ValidInput ==
    /\ UniqueStateNames
    /\ EndpointsListed
    /\ \A i, j \in DOMAIN builder_transitions : i # j => ~ SameEdge(i, j) /\ ~ SameNameAndSource(i, j)
    /\ builder_initial_state_name \notin {None, ""}
    /\ builder_initial_state_name \in RegisteredNames

C3_ValidInputBuilds ==
    (built # "no" /\ ValidInput) =>
       /\ built = "yes"
       /\ raised = NoException
       /\ state = builder_initial_state_name

C3_Witness ==
    /\ built = "yes" /\ ValidInput
    /\ Len(builder_states) >= 2 /\ Len(builder_transitions) >= 2
    /\ \E i, j \in DOMAIN builder_transitions :
          i # j /\ builder_transitions[i].name = builder_transitions[j].name
    /\ state = builder_initial_state_name

(***************************************************************************)
(* C4  When execute_transition(name) returns, the current state is the     *)
(* destination of the one input transition called name out of the state    *)
(* the call started in; when execute_transition_to(d) returns, the current *)
(* state is d.  This holds after every call of every sequence of calls.    *)
(***************************************************************************)
C4_Destination ==
    Returned =>
       /\ Cardinality(Requested) = 1
       /\ \A t \in Requested : state = t.destination_name
       /\ last.op = "execute_transition_to" => state = last.arg

\* tests/test_base.py: from A, to(A) stays in A, to(B) gives B, the transition B->C by name gives C
C4_Witness ==
    /\ Returned /\ ncalls = 3
    /\ builder_initial_state_name = "A"
    /\ last.op = "execute_transition" /\ last.state_before = "B" /\ state = "C"
    /\ call_count[<<"after_entry", "A">>] = 1
    /\ call_count[<<"after_entry", "B">>] = 1
    /\ call_count[<<"after_entry", "C">>] = 1

(***************************************************************************)
(* C5  execute_transition(name), where no transition out of the current    *)
(* state is called name, raises the unknown-transition error of line 138   *)
(* and leaves the current state as it was; so it is when name is the name  *)
(* of a transition out of another state.                                   *)
(***************************************************************************)
C5_UnknownName ==
    (Called /\ last.op = "execute_transition" /\ InputNamed(last.state_before, last.arg) = {}) =>
       /\ pc = "idle"
       /\ raised = FSMException("Invalid transition:{} from source:{}", <<last.arg, last.state_before>>)
       /\ UnknownTransitionError(raised)
       /\ state = last.state_before

C5_Witness ==
    /\ Called /\ last.op = "execute_transition"
    /\ InputNamed(last.state_before, last.arg) = {}
    /\ \E i \in DOMAIN builder_transitions : builder_transitions[i].name = last.arg
    /\ UnknownTransitionError(raised)
    /\ state = last.state_before

(***************************************************************************)
(* C6  execute_transition_to(d), where d is a listed state and no          *)
(* transition goes from the current state to d, raises the unknown-        *)
(* transition error of line 157 and leaves the current state as it was,    *)
(* also when d can be reached in several transitions.                      *)
(***************************************************************************)
C6_NoDirectEdge ==
    (/\ Called /\ last.op = "execute_transition_to"
     /\ last.arg \in RegisteredNames
     /\ InputEdge(last.state_before, last.arg) = {}) =>
       /\ pc = "idle"
       /\ raised = FSMException("Invalid transition between source:{} and destination:{}",
                                <<last.state_before, last.arg>>)
       /\ UnknownTransitionError(raised)
       /\ state = last.state_before

C6_Witness ==
    /\ Called /\ last.op = "execute_transition_to"
    /\ InputEdge(last.state_before, last.arg) = {}
    /\ \E m \in RegisteredNames \ {last.state_before, last.arg} :
          InputEdge(last.state_before, m) # {} /\ InputEdge(m, last.arg) # {}
    /\ UnknownTransitionError(raised)
    /\ state = last.state_before

(***************************************************************************)
(* C7  execute_transition_to(d), where d is not a listed state, raises the *)
(* unknown-state error of line 153, which is not the unknown-transition    *)
(* error: the listed-state check comes before the edge lookup.  The        *)
(* current state stays as it was.                                          *)
(***************************************************************************)
C7_UnknownDestination ==
    (Called /\ last.op = "execute_transition_to" /\ last.arg \notin RegisteredNames) =>
       /\ pc = "idle"
       /\ raised = FSMException("Cannot execute transition. Invalid state:{}", <<last.arg>>)
       /\ UnknownStateError(raised)
       /\ ~ UnknownTransitionError(raised)
       /\ state = last.state_before

C7_Witness ==
    /\ Called /\ last.op = "execute_transition_to" /\ last.arg \notin RegisteredNames
    /\ UnknownStateError(raised)
    /\ ncalls >= 2 /\ state # builder_initial_state_name

(***************************************************************************)
(* C8  An execute call whose lookup fails invokes no hook: nothing is      *)
(* invoked during the call and no call count moves.                        *)
(***************************************************************************)
C8_FailedLookupNoHook ==
    (Called /\ (Requested = {} \/ raised.type = "FSMException")) =>
       /\ pc = "idle"
       /\ Requested = {} /\ raised.type = "FSMException"
       /\ trace = << >>
       /\ call_count = last.call_count_before

C8_Witness ==
    /\ Called /\ Requested = {} /\ raised.type = "FSMException"
    /\ trace = << >>
    /\ InputState(state).before_exit
    /\ call_count[<<"before_exit", state>>] = 0
    /\ \E h \in AllHooks : call_count[h] > 0

(***************************************************************************)
(* C9  A self-transition on S whose three hooks are given runs the exit    *)
(* hook of S, the transition hook and the entry hook of S, in that order   *)
(* and once each, and the current state is S afterwards; every repetition  *)
(* adds one invocation to each of the three.                               *)
(***************************************************************************)
C9_SelfTransition ==
    Returned =>
       \A t \in Requested :
          (t.source_name = t.destination_name /\ Len(HooksOf(t)) = 3) =>
             /\ state = t.source_name /\ state = last.state_before
             /\ HookOrder = << <<"before_exit", t.source_name>>,
                               <<"on_transition", t.source_name, t.name>>,
                               <<"after_entry", t.source_name>> >>
             /\ CountsGrewBy(HookOrder)

C9_Witness ==
    /\ Returned /\ ncalls = 2
    /\ \E t \in Requested :
          /\ t.source_name = t.destination_name /\ state = t.source_name
          /\ call_count[<<"before_exit", t.source_name>>] = 2
          /\ call_count[<<"on_transition", t.source_name, t.name>>] = 2
          /\ call_count[<<"after_entry", t.source_name>>] = 2

(***************************************************************************)
(* C10  Construction from a transition list with two transitions of the    *)
(* same (source, destination) fails, and in an input with no other fault   *)
(* before it (state names unique, endpoints listed, no name used twice     *)
(* from one source for different destinations) the error is the            *)
(* duplicate-edge error of line 215, whether the two names are equal or    *)
(* different.                                                              *)
(***************************************************************************)
HasDuplicateEdge ==
    \E i, j \in DOMAIN builder_transitions : i # j /\ SameEdge(i, j)

NoOtherTransitionFault ==
    /\ UniqueStateNames
    /\ EndpointsListed
    /\ \A i, j \in DOMAIN builder_transitions : (i # j /\ SameNameAndSource(i, j)) => SameEdge(i, j)

C10_DuplicateEdge ==
    (built # "no" /\ HasDuplicateEdge) =>
       /\ built = "failed"
       /\ raised.type = "FSMException"
       /\ NoOtherTransitionFault => DuplicateEdgeError(raised)

C10_Witness ==
    /\ built = "failed" /\ DuplicateEdgeError(raised)
    /\ NoOtherTransitionFault
    /\ \E i, j \in DOMAIN builder_transitions : i # j /\ SameEdge(i, j) /\ SameNameAndSource(i, j)

(***************************************************************************)
(* C11  Construction from a transition list with two transitions of the    *)
(* same name and source fails with the duplicate-name error of line 217    *)
(* whatever the two destinations are, also when they are equal; the same   *)
(* name from two different sources is accepted.  Stated for an input with  *)
(* no other fault: state names unique, endpoints listed, and no two        *)
(* transitions of different names on one (source, destination).            *)
(***************************************************************************)
HasDuplicateName ==
    \E i, j \in DOMAIN builder_transitions : i # j /\ SameNameAndSource(i, j)

NoFaultButDuplicateName ==
    /\ UniqueStateNames
    /\ EndpointsListed
    /\ \A i, j \in DOMAIN builder_transitions : (i # j /\ SameEdge(i, j)) => SameNameAndSource(i, j)

C11_DuplicateName ==
    (built # "no" /\ HasDuplicateName /\ NoFaultButDuplicateName) =>
       /\ built = "failed"
       /\ DuplicateTransitionNameError(raised)

(***************************************************************************)
(* C12  Construction from a state list in which a name occurs twice fails  *)
(* with the duplicate-state error of line 195, whatever the transitions    *)
(* and the initial state name are, and leaves no FSM.                      *)
(***************************************************************************)
C12_DuplicateState ==
    (built # "no" /\ ~ UniqueStateNames) =>
       /\ built = "failed"
       /\ DuplicateStateError(raised)
       /\ state_transition_map = EmptyMap
       /\ state = None

C12_Witness ==
    /\ built = "failed" /\ DuplicateStateError(raised)
    /\ ~ UniqueStateNames
    /\ ~ EndpointsListed
    /\ HasDuplicateEdge
    /\ builder_initial_state_name = None

(***************************************************************************)
(* C13  Construction fails with the initial-state error of line 232 when   *)
(* the initial state name was never set (None), is empty, or is not a      *)
(* listed state, the states and transitions being valid; with faulty       *)
(* states or transitions it fails as well.  An empty name fails even when  *)
(* a state named "" is listed.                                             *)
(***************************************************************************)
ValidStatesAndTransitions ==
    /\ UniqueStateNames
    /\ EndpointsListed
    /\ \A i, j \in DOMAIN builder_transitions : i # j => ~ SameEdge(i, j) /\ ~ SameNameAndSource(i, j)

InitialStateFault ==
    \/ builder_initial_state_name = None
    \/ builder_initial_state_name = ""
    \/ builder_initial_state_name \notin RegisteredNames

C13_InvalidInitialState ==
    (built # "no" /\ InitialStateFault) =>
       /\ built = "failed"
       /\ state = None
       /\ ValidStatesAndTransitions => InvalidInitialStateError(raised)

\* test_fsm_builder_error: states and a transition are staged, set_initial_state is never called
C13_Witness ==
    /\ built = "failed" /\ InvalidInitialStateError(raised)
    /\ builder_initial_state_name = None
    /\ ValidStatesAndTransitions
    /\ Len(builder_states) >= 2 /\ Len(builder_transitions) >= 1

(***************************************************************************)
(* C14  Construction raises the unknown-state error of lines 211/213 only  *)
(* when some transition has a source or destination that is not a listed   *)
(* state, and it does so whenever that is the only fault of the states     *)
(* and transitions.  A transition whose endpoints occur anywhere in the    *)
(* state list never gets this error: all states are registered before the  *)
(* first transition is validated, in whatever order the builder was        *)
(* filled.                                                                 *)
(***************************************************************************)
NoFaultButEndpoints ==
    /\ UniqueStateNames
    /\ \A i, j \in DOMAIN builder_transitions : i # j => ~ SameEdge(i, j) /\ ~ SameNameAndSource(i, j)

C14_UnknownEndpoint ==
    built # "no" =>
       /\ UnknownStateError(raised) => ~ EndpointsListed
       /\ ~ EndpointsListed => built = "failed"
       /\ (~ EndpointsListed /\ NoFaultButEndpoints) => UnknownStateError(raised)

C14_Witness ==
    /\ built = "failed" /\ UnknownStateError(raised)
    /\ NoFaultButEndpoints
    /\ Len(builder_transitions) >= 2
    /\ builder_transitions[1].source_name \in RegisteredNames
    /\ builder_transitions[1].destination_name \in RegisteredNames
    /\ builder_transitions[2].source_name \in RegisteredNames
    /\ builder_transitions[2].destination_name \notin RegisteredNames

(***************************************************************************)
(* C15  Filling the builder and constructing the FSM invoke no hook: in    *)
(* every state of the builder, and after build(), every exit, entry and    *)
(* transition hook has been called zero times; the entry hook of the       *)
(* initial state is not run by the construction.                           *)
(***************************************************************************)
C15_NoHookOnBuild ==
    /\ \A h \in AllHooks : call_count[h] = 0
    /\ trace = << >>

C15_Witness ==
    /\ built = "yes"
    /\ InputState(state).after_entry /\ InputState(state).before_exit
    /\ \E i \in DOMAIN builder_transitions : builder_transitions[i].on_transition
    /\ call_count[<<"after_entry", state>>] = 0

(***************************************************************************)
(* C16  Every hook invoked by an execute call receives exactly the keyword *)
(* payload of that call, the same for the exit, the transition and the     *)
(* entry hook; a call without payload hands the empty payload to each.     *)
(***************************************************************************)
C16_Payload ==
    Called => \A i \in DOMAIN trace : trace[i].kwargs = last.kwargs

C16_Witness ==
    /\ Returned
    /\ Len(trace) = 3
    /\ last.kwargs = {<<"test_arg", 111>>}
    /\ \A i \in DOMAIN trace : trace[i].kwargs = {<<"test_arg", 111>>}

(***************************************************************************)
(* C17  Once the FSM is built no step of an execute call, returning or     *)
(* raising, changes the lookup structure: the registered states and both   *)
(* transition maps of every state stay as they are; of the two fields of   *)
(* the FSM only the current state can change.                              *)
(***************************************************************************)
C17_MapFrozen ==
    [][built = "yes" => state_transition_map' = state_transition_map]_vars

C17_Witness ==
    /\ Called /\ ncalls >= 2
    /\ state # builder_initial_state_name
    /\ last.op = "execute_transition_to" /\ last.arg \notin RegisteredNames
    /\ raised.type = "FSMException"
    /\ DOMAIN state_transition_map = RegisteredNames

(***************************************************************************)
(* C18  Several threads call execute_* on one FSM.  The hook sequences of  *)
(* two calls interleave, or the current state changes along a pair that is *)
(* no registered edge out of the state current just before the change,     *)
(* only when the callers do not wrap their calls in the lock: with every   *)
(* call under the one caller-held lock neither happens.  Without the lock  *)
(* a state is reached in which two calls have resolved their transition    *)
(* from the same current state and their hooks have interleaved.           *)
(***************************************************************************)
\* thread t has resolved its transition and has not yet left execute_*
ThreadResolved(t) == threads[t].pc \notin {"idle", "call", "raise", "done"}

\* this step is line 177 run by thread t
SetsState(t) == threads[t].pc = "set_state" /\ threads'[t].pc = "done"

HooksInterleaved == hook_order.interleaved # {}

C18_LockOrInterleaving ==
    /\ [](HooksInterleaved => ~ use_lock)
    /\ [][(\E t \in Threads : SetsState(t)) /\ InputEdge(state, state') = {} => ~ use_lock]_vars

C18_Witness ==
    /\ ~ use_lock
    /\ \E t, u \in Threads :
          /\ t # u
          /\ ThreadResolved(t) /\ ThreadResolved(u)
          /\ threads[t].resolved_from = threads[u].resolved_from
          /\ <<t, threads[t].calls>> \in hook_order.interleaved
          /\ <<u, threads[u].calls>> \in hook_order.calls

\* with the lock, the calls of two threads have run one after the other and moved the state
C18_LockedCalls ==
    /\ use_lock
    /\ \A t \in Threads : threads[t].pc = "idle" /\ <<t, 1>> \in hook_order.calls
    /\ state # builder_initial_state_name

(***************************************************************************)
(* C19  Construction raises the one exception of the first fault met in    *)
(* this order: the states in list order (duplicate state); then the        *)
(* transitions in list order, each with the checks unknown source, unknown *)
(* destination, duplicate edge, duplicate name in that order; then the     *)
(* initial state.  Whenever it raises, no FSM is left.                     *)
(***************************************************************************)
\* the first failing check of transition k when the transitions before it were accepted
TransitionFault(k) ==
    LET t == builder_transitions[k]
    IN IF t.source_name \notin RegisteredNames
       THEN FSMException("Invalid source state:{} in transition:{}", <<t.source_name, t.name>>)
       ELSE IF t.destination_name \notin RegisteredNames
       THEN FSMException("Invalid destination state:{} in transition:{}", <<t.destination_name, t.name>>)
       ELSE IF \E i \in 1..(k - 1) : SameEdge(i, k)
       THEN FSMException("Transition between source:{} and destination:{} already exists.",
                         <<t.source_name, t.destination_name>>)
       ELSE IF \E i \in 1..(k - 1) : SameNameAndSource(i, k)
       THEN FSMException("Duplication transition:{} from source:{}", <<t.name, t.source_name>>)
       ELSE NoException

FaultyTransitions == {k \in DOMAIN builder_transitions : TransitionFault(k) # NoException}

FirstFault ==
    IF ~ UniqueStateNames
    THEN FSMException("State name must be unique, cannot add duplicate.", << >>)
    ELSE IF FaultyTransitions # {}
    THEN TransitionFault(CHOOSE k \in FaultyTransitions : \A j \in FaultyTransitions : k <= j)
    ELSE IF InitialStateFault
    THEN FSMException("Incorrect initial state. Set a valid initial state name.", << >>)
    ELSE NoException

C19_FirstFault ==
    built # "no" =>
       /\ raised = FirstFault
       /\ built = (IF FirstFault = NoException THEN "yes" ELSE "failed")
       /\ built = "failed" => state_transition_map = EmptyMap /\ state = None

\* three rules are broken: an unlisted destination, a repeated edge and name, no initial state
C19_Witness ==
    /\ built = "failed"
    /\ raised.message = "Invalid destination state:{} in transition:{}"
    /\ UniqueStateNames
    /\ HasDuplicateEdge /\ HasDuplicateName
    /\ InitialStateFault

(***************************************************************************)
(* C20  In a built FSM the registered names are the listed state names,    *)
(* and for each state s the name-indexed and the destination-indexed map   *)
(* hold the same transitions, the input transitions of source s: each      *)
(* under its own name in the first and under its own destination in the    *)
(* second, its destination registered, no two with one name or one         *)
(* destination.                                                            *)
(***************************************************************************)
InputFrom(s) ==
    {builder_transitions[i] : i \in {j \in DOMAIN builder_transitions :
        builder_transitions[j].source_name = s}}

StoredByName(s) ==
    {state_transition_map[s].transitions[n] : n \in DOMAIN state_transition_map[s].transitions}

StoredByDestination(s) ==
    {state_transition_map[s].destination_states[d] :
        d \in DOMAIN state_transition_map[s].destination_states}

C20_DualIndex ==
    built = "yes" =>
       /\ DOMAIN state_transition_map = RegisteredNames
       /\ \A s \in DOMAIN state_transition_map :
             /\ state_transition_map[s].state = InputState(s)
             /\ StoredByName(s) = InputFrom(s)
             /\ StoredByDestination(s) = InputFrom(s)
             /\ \A n \in DOMAIN state_transition_map[s].transitions :
                   state_transition_map[s].transitions[n].name = n
             /\ \A d \in DOMAIN state_transition_map[s].destination_states :
                   /\ state_transition_map[s].destination_states[d].destination_name = d
                   /\ d \in DOMAIN state_transition_map
             /\ \A t1, t2 \in InputFrom(s) :
                   (t1.name = t2.name \/ t1.destination_name = t2.destination_name) => t1 = t2
             /\ Cardinality(InputFrom(s)) =
                   Cardinality({j \in DOMAIN builder_transitions : builder_transitions[j].source_name = s})

C20_Witness ==
    /\ built = "yes"
    /\ \E s \in DOMAIN state_transition_map :
          /\ Cardinality(StoredByName(s)) >= 2
          /\ StoredByDestination(s) = StoredByName(s)

(***************************************************************************)
(* C21  Once the FSM is constructed, the current state is the name of a    *)
(* registered state: after construction, during and after every execute    *)
(* call of every sequence of calls, whether the call returned, failed its  *)
(* lookup or was aborted by a raising hook.                                *)
(***************************************************************************)
C21_StateRegistered ==
    built = "yes" =>
       /\ state \in RegisteredNames
       /\ state \in DOMAIN state_transition_map

\* a call aborted by a hook, after a call that moved the FSM away from its initial state
C21_Witness ==
    /\ Called /\ pc = "idle" /\ ncalls = MaxCalls
    /\ raised.type = "HookError"
    /\ state # builder_initial_state_name
    /\ state \in RegisteredNames

(***************************************************************************)
(* C22  The hooks do not call back into the FSM.  Every assignment of the  *)
(* current state made by an execute call goes from s to d where an input   *)
(* transition has source s and destination d, and nothing else changes the *)
(* current state of a built FSM; hence the current state is always         *)
(* reachable from the initial state along input transitions.               *)
(***************************************************************************)
\* S and the registered states one input transition away from a state of S
Successors(S) ==
    S \cup {d \in RegisteredNames : \E s \in S : InputEdge(s, d) # {}}

RECURSIVE ReachableFrom(_)
ReachableFrom(S) == IF Successors(S) = S THEN S ELSE ReachableFrom(Successors(S))

\* this step is line 177, or changes the current state in any other way
AssignsState == (pc = "set_state" /\ pc' = "idle") \/ state' # state

C22_AlongEdges ==
    /\ [](built = "yes" => state \in ReachableFrom({builder_initial_state_name}))
    /\ [][(built = "yes" /\ AssignsState) => InputEdge(state, state') # {}]_vars

\* two calls have moved the FSM to a state no single transition joins to the initial state
C22_Witness ==
    /\ Returned /\ ncalls >= 2
    /\ state # builder_initial_state_name
    /\ state # last.state_before
    /\ InputEdge(builder_initial_state_name, state) = {}
    /\ \E n \in RegisteredNames : InputEdge(state, n) = {}

(***************************************************************************)
(* C23  For every registered state s and every input transition t out of   *)
(* s, execute_transition(t.name) and execute_transition_to(t.destination)  *)
(* called in s resolve the same transition t and the same destination      *)
(* State, and a call that returns has run the hooks of t in protocol       *)
(* order with the call's payload and left the current state at the         *)
(* destination of t, whichever of the two methods was called.  Each of the *)
(* two calls raises an FSMException exactly when the input has no such t   *)
(* for its argument.                                                       *)
(***************************************************************************)
\* the trace of a call that ran the hooks of t with payload kwargs
ExpectedTrace(t, kwargs) ==
    [i \in DOMAIN HooksOf(t) |-> [hook |-> HooksOf(t)[i], kwargs |-> kwargs]]

\* the two lookups made in state s agree on every input transition out of s
SameResolution(s) ==
    \A t \in InputFrom(s) :
       LET by_name == lookup_transition(state_transition_map, s, t.name)
           by_destination == lookup_transition_to(state_transition_map, s, t.destination_name)
       IN /\ by_name = [raised |-> NoException, transition |-> t]
          /\ by_destination = by_name
          /\ state_transition_map[by_name.transition.destination_name].state
                = state_transition_map[t.destination_name].state

\* each lookup made in state s fails exactly when the input has no transition for the argument
FailsWhenAbsent(s) ==
    /\ \A n \in RunTransitionNames \cup {UnknownName} :
          (lookup_transition(state_transition_map, s, n).raised.type = "FSMException")
             <=> (InputNamed(s, n) = {})
    /\ \A d \in StateNames \cup {UnknownName} :
          (lookup_transition_to(state_transition_map, s, d).raised.type = "FSMException")
             <=> (InputEdge(s, d) = {})

C23_SameEffect ==
    /\ built = "yes" => \A s \in RegisteredNames : SameResolution(s) /\ FailsWhenAbsent(s)
    /\ (Called /\ pc = "idle") =>
          /\ (raised.type = "FSMException") <=> (Requested = {})
          /\ raised = NoException =>
                \E t \in Requested :
                   /\ Requested = {t}
                   /\ InputNamed(last.state_before, t.name) = InputEdge(last.state_before, t.destination_name)
                   /\ trace = ExpectedTrace(t, last.kwargs)
                   /\ CountsGrewBy(HooksOf(t))
                   /\ state = t.destination_name

\* a transition with all its hooks has been executed twice from the same state, the second
\* time by destination and with a payload
C23_Witness ==
    /\ Returned /\ last.op = "execute_transition_to" /\ last.kwargs # {}
    /\ state # last.state_before
    /\ \E t \in Requested :
          /\ Len(HooksOf(t)) = 3
          /\ call_count[<<"on_transition", t.source_name, t.name>>] = 2
          /\ trace = ExpectedTrace(t, last.kwargs)

(***************************************************************************)
(* C24  A hook of an executing transition s->d calls execute_* on the same *)
(* FSM and the inner call succeeds.  The inner call resolves its           *)
(* transition from s when no call has returned inside a hook of the outer  *)
(* call before it, and from the destination of the latest call that did    *)
(* otherwise: the current state is no longer s then.  The outer call goes  *)
(* on with its remaining hooks, and when it returns the current state is   *)
(* d: the inner call's state change is overwritten.                        *)
(***************************************************************************)
\* the input transitions the call of activation a asks for
ActivationRequested(a) ==
    IF a.op = "execute_transition" THEN InputNamed(a.resolved_from, a.arg)
    ELSE InputEdge(a.resolved_from, a.arg)

\* the hooks activation a has invoked are those of its transition t up to its position
HooksUpTo(a, t) ==
    /\ a.hooks = SubSeq(HooksOf(t), 1, Len(a.hooks))
    /\ a.pc = "set_state" => a.hooks = HooksOf(t)

\* this step is the return of the running call from line 177
Returns == stack # << >> /\ Top.pc = "set_state" /\ Len(stack') = Len(stack) - 1

\* the state the FSM is in while activation a waits or runs
StateDuring(a) ==
    IF a.inner_returned = None THEN a.frame.transition.source_name ELSE a.inner_returned

OuterGoesOn ==
    \A i \in DOMAIN stack :
       /\ Cardinality(ActivationRequested(stack[i])) = 1
       /\ \A t \in ActivationRequested(stack[i]) :
             /\ t.source_name = stack[i].resolved_from
             /\ HooksUpTo(stack[i], t)

OuterOverwrites ==
    Returns => \A t \in ActivationRequested(Top) : state' = t.destination_name

\* this step is a successful call of execute_* made by the running hook
InnerCall == stack # << >> /\ Len(stack') = Len(stack) + 1

\* the inner call made in this step was looked up with current state s
InnerResolvesFrom(s) ==
    /\ stack'[Len(stack')].resolved_from = s
    /\ stack'[Len(stack')].frame.transition.source_name = s
    /\ stack'[Len(stack')].frame.source_state.name = s

\* C24 as it is written: every successful inner call resolves its transition from s, the
\* source of the transition whose hook made the call
C24_InnerFromSource ==
    /\ []OuterGoesOn
    /\ [][InnerCall => InnerResolvesFrom(Top.frame.transition.source_name)]_vars
    /\ [][OuterOverwrites]_vars

C24_InnerFromCurrent ==
    /\ []OuterGoesOn
    /\ [](stack # << >> => state = StateDuring(Top))
    /\ [][InnerCall => InnerResolvesFrom(StateDuring(Top))]_vars
    /\ [][OuterOverwrites]_vars

\* the outer call has run all its hooks after an inner call moved the FSM elsewhere,
\* and is about to assign its own destination
C24_Witness ==
    /\ Len(stack) = 1
    /\ Top.pc = "set_state"
    /\ Len(Top.hooks) = 3
    /\ Top.inner_returned \notin {None, Top.frame.destination_state.name, Top.frame.source_state.name}
    /\ state = Top.inner_returned

====
